---- MODULE Spec2Model ----
(***************************************************************************)
(* Model of flexmind.chunking.coref_chunker.CorefSafeChunker               *)
(* (src/flexmind/chunking/coref_chunker.py).                               *)
(*                                                                         *)
(* The spaCy pipeline (self.nlp) is an external collaborator.  A text is   *)
(* the sequence of the spans doc.sents cuts it into, each span a string;   *)
(* a span is a sentence of Vocabulary or a run of whitespace.  The         *)
(* pipeline cuts a text joined with " " at the joining spaces.  The tokens *)
(* of a span and their annotations (lemma_, pos_, entity label) are the    *)
(* tables Tokens, Lemma, Pos and EntLabel.                                 *)
(***************************************************************************)
EXTENDS Integers, Sequences, FiniteSets, TLC

(* ---------------- bounds of the model ---------------- *)

\* longest document, in sentences
MaxLen == 4

\* largest overlap_sentences the chunker is configured with
MaxOverlap == 2

(* ---------------- the sentences documents are made of ---------------- *)

\* entity, no pronoun (3 tokens)
SentJohn == "John walked."

\* entity, no pronoun (3 tokens)
SentMary == "Mary smiled."

\* pronouns inside, no entity but a DATE, density exactly 3/20 = 0.15
SentThen == "Then people told him she had seen it near the old stone bridge behind the small house last week."

\* starts on a pronoun, no entity, a concrete noun, density 1/7 < 0.15
SentIt == "It was a very long day."

\* a pronoun inside, no entity but a DATE, a concrete noun, density 1/8 < 0.15
SentDog == "The old dog saw him again yesterday."

\* no pronoun, no entity, only a generic noun (4 tokens)
SentThing == "The thing fell."

Vocabulary == {SentJohn, SentMary, SentThen, SentIt, SentDog, SentThing}

\* the whitespace-only spans
BlankSpans == {" ", " \t "}

\* the configurations the chunker is constructed with
TargetSizes == {0, 11}

MaxSizes == {12}

(* ---------------- the spaCy tokens and their annotations ---------------- *)

\* the tokens of a span: [token for token in self.nlp(span)]
Tokens(span) ==
    CASE span = SentJohn -> <<"John", "walked", ".">>
      [] span = SentMary -> <<"Mary", "smiled", ".">>
      [] span = SentThen ->
             <<"Then", "people", "told", "him", "she", "had", "seen", "it", "near", "the",
               "old", "stone", "bridge", "behind", "the", "small", "house", "last", "week", ".">>
      [] span = SentIt -> <<"It", "was", "a", "very", "long", "day", ".">>
      [] span = SentDog -> <<"The", "old", "dog", "saw", "him", "again", "yesterday", ".">>
      [] span = SentThing -> <<"The", "thing", "fell", ".">>
      [] span = " " -> <<>>
      [] OTHER -> <<span>>

\* token.lemma_.lower()
Lemma(w) ==
    CASE w = "It" -> "it"
      [] w = "him" -> "he"
      [] w = "The" -> "the"
      [] w = "Then" -> "then"
      [] w = "John" -> "john"
      [] w = "Mary" -> "mary"
      [] w = "was" -> "be"
      [] w = "had" -> "have"
      [] w = "told" -> "tell"
      [] w = "seen" -> "see"
      [] w = "saw" -> "see"
      [] w = "fell" -> "fall"
      [] w = "walked" -> "walk"
      [] w = "smiled" -> "smile"
      [] OTHER -> w

\* str.lower()
Lower(w) ==
    CASE w = "It" -> "it"
      [] w = "The" -> "the"
      [] w = "Then" -> "then"
      [] w = "John" -> "john"
      [] w = "Mary" -> "mary"
      [] OTHER -> w

\* token.pos_
Pos(w) ==
    CASE w \in {"It", "him", "she", "it"} -> "PRON"
      [] w \in {"John", "Mary"} -> "PROPN"
      [] w \in {"thing", "day", "dog", "people", "bridge", "house", "week", "yesterday"} -> "NOUN"
      [] w \in {"walked", "smiled", "told", "had", "seen", "fell", "was", "saw"} -> "VERB"
      [] w \in {"The", "the", "a"} -> "DET"
      [] w \in {"Then", "again", "very", "near", "behind"} -> "ADV"
      [] w \in {"."} -> "PUNCT"
      [] w \in BlankSpans -> "SPACE"
      [] OTHER -> "ADJ"

\* ent.label_ of the entity the token belongs to ("" when it belongs to none)
EntLabel(w) ==
    CASE w \in {"John", "Mary"} -> "PERSON"
      [] w \in {"yesterday", "last", "week"} -> "DATE"
      [] OTHER -> ""

(* ---------------- helpers on sequences ---------------- *)

\* a local variable of the source: the value is computed once, at the assignment,
\* and Body reads it
Local(value, Body(_)) == CHOOSE r \in {Body(v) : v \in {value}} : TRUE

\* " ".join(list of sentences): the sentences with a space between two of them
Join(ss) ==
    IF ss = <<>> THEN <<>>
    ELSE [k \in 1..(2 * Len(ss) - 1) |-> IF k % 2 = 1 THEN ss[(k + 1) \div 2] ELSE " "]

RECURSIVE SumUpTo(_, _)
\* ns[1] + ... + ns[n]
SumUpTo(ns, n) == IF n = 0 THEN 0 ELSE ns[n] + SumUpTo(ns, n - 1)

\* sum(ns)
SumSeq(ns) == SumUpTo(ns, Len(ns))

\* str.strip() of a span
StripSpan(span) == IF span \in BlankSpans THEN "" ELSE span

RECURSIVE LStrip(_)
LStrip(t) == IF t # <<>> /\ StripSpan(Head(t)) = "" THEN LStrip(Tail(t)) ELSE t

RECURSIVE RStrip(_)
RStrip(t) ==
    IF t # <<>> /\ StripSpan(t[Len(t)]) = "" THEN RStrip(SubSeq(t, 1, Len(t) - 1)) ELSE t

\* str.strip() of a text
Strip(t) == RStrip(LStrip(t))

\* Python's lst[-n:] for n >= 0 (lst[-0:] is lst[0:], the whole list)
LastN(lst, n) ==
    IF n = 0 \/ n >= Len(lst) THEN lst ELSE SubSeq(lst, Len(lst) - n + 1, Len(lst))

Min(a, b) == IF a <= b THEN a ELSE b

Max(a, b) == IF a >= b THEN a ELSE b

\* x in lst
InList(x, lst) == \E k \in 1..Len(lst) : lst[k] = x

\* NotIn without the filter: every sentence kept
KeepAll(lst, other) == lst

RECURSIVE NotIn(_, _)
\* [x for x in lst if x not in other]
NotIn(lst, other) ==
    IF lst = <<>> THEN <<>>
    ELSE IF InList(Head(lst), other) THEN NotIn(Tail(lst), other)
    ELSE <<Head(lst)>> \o NotIn(Tail(lst), other)

(* ---------------- the pipeline wrappers ---------------- *)

RECURSIVE SplitIntoSentences(_)
\* _split_into_sentences: [sent.text.strip() for sent in doc.sents if sent.text.strip()]
SplitIntoSentences(t) ==
    IF t = <<>> THEN <<>>
    ELSE IF StripSpan(Head(t)) = "" THEN SplitIntoSentences(Tail(t))
    ELSE <<StripSpan(Head(t))>> \o SplitIntoSentences(Tail(t))

\* _count_tokens: len(self.nlp(text))
CountTokens(t) == SumSeq([k \in 1..Len(t) |-> Len(Tokens(t[k]))])

AllPronouns ==
    {"he", "she", "it", "they", "him", "her", "them"}
    \cup {"his", "her", "its", "their", "hers", "theirs"}
    \cup {"this", "that", "these", "those"}
    \cup {"himself", "herself", "itself", "themselves"}

\* line 153 and line 311
IsPronounToken(w) == Lemma(w) \in AllPronouns \/ Pos(w) = "PRON"

\* the pronoun tokens of a span
PronounsOfSpan(span) ==
    Local(Tokens(span), LAMBDA doc : Cardinality({k \in 1..Len(doc) : IsPronounToken(doc[k])}))

\* lines 147-154: pronoun_count
PronounCount(t) == SumSeq([k \in 1..Len(t) |-> PronounsOfSpan(t[k])])

\* _calculate_pronoun_density: the quotient pronoun_count / len(doc) as the pair
\* <<numerator, denominator>>; 0.0 for the empty doc is <<0, 1>>
CalculatePronounDensity(t) ==
    IF CountTokens(t) = 0 THEN <<0, 1>> ELSE <<PronounCount(t), CountTokens(t)>>

\* DensityAtLeastThreshold with > for >=
DensityAboveThreshold(d) == d[1] * 100 > 15 * d[2]

\* density >= 0.15, on the quotient (0.15 = 15/100)
DensityAtLeastThreshold(d) == d[1] * 100 >= 15 * d[2]

\* _has_named_entities
HasNamedEntities(t) ==
    \E k \in 1..Len(t) :
        \E j \in 1..Len(Tokens(t[k])) :
            /\ EntLabel(Tokens(t[k])[j]) # ""
            /\ EntLabel(Tokens(t[k])[j]) \notin {"DATE", "TIME", "CARDINAL", "ORDINAL"}

\* _contains_pronouns
ContainsPronouns(t) ==
    \E k \in 1..Len(t) : \E j \in 1..Len(Tokens(t[k])) : IsPronounToken(Tokens(t[k])[j])

\* _has_concrete_nouns
HasConcreteNouns(t) ==
    \E k \in 1..Len(t) :
        \E j \in 1..Len(Tokens(t[k])) :
            /\ Pos(Tokens(t[k])[j]) = "NOUN"
            /\ Lemma(Tokens(t[k])[j]) \notin {"thing", "person", "place", "way", "time"}

\* len(text) in characters
CharLen(t) == SumSeq([k \in 1..Len(t) |-> Len(t[k])])

\* _create_chunk
CreateChunk(t, start_idx, chunk_id) ==
    Local(t, LAMBDA chunk_text :
        [text |-> chunk_text,
         start_idx |-> start_idx,
         end_idx |-> start_idx + CharLen(chunk_text),
         metadata |-> [chunk_id |-> chunk_id,
                       token_count |-> CountTokens(chunk_text),
                       sentence_count |-> Len(SplitIntoSentences(chunk_text)),
                       has_entities |-> HasNamedEntities(chunk_text),
                       pronoun_density |-> CalculatePronounDensity(chunk_text)]])

(* ---------------- the shared lookup ---------------- *)

\* lines 325-335: the index of the first sentence of all_sentences whose text is
\* the first sentence of all_chunks[chunk_idx]; chunk_idx * 2 when there is none.
\* Indices are 0-based as in the source.
CurrentStartIdx(all_sentences, chunk_idx, all_chunks) ==
    LET current_chunk_sentences ==
            IF chunk_idx < Len(all_chunks)
            THEN SplitIntoSentences(all_chunks[chunk_idx + 1].text)
            ELSE <<>>
        hits == IF current_chunk_sentences = <<>> THEN {}
                ELSE {k \in 0..(Len(all_sentences) - 1) :
                        StripSpan(all_sentences[k + 1]) = StripSpan(current_chunk_sentences[1])}
    IN IF hits = {} THEN chunk_idx * 2
       ELSE CHOOSE k \in hits : \A m \in hits : k <= m

RECURSIVE ScanEntitiesUp(_, _, _, _, _)
\* for j in range(j, i + 1): the entity sentences met going forward
ScanEntitiesUp(all_sentences, j, i, result, max_sentences) ==
    IF j > i THEN result
    ELSE IF j < Len(all_sentences) /\ HasNamedEntities(<<all_sentences[j + 1]>>)
         THEN IF Len(result) + 1 >= max_sentences
              THEN result \o <<all_sentences[j + 1]>>
              ELSE ScanEntitiesUp(all_sentences, j + 1, i,
                                  result \o <<all_sentences[j + 1]>>, max_sentences)
         ELSE ScanEntitiesUp(all_sentences, j + 1, i, result, max_sentences)

\* ScanEntities going forward from the start of the document, range(0, i + 1)
ScanEntitiesFromStart(all_sentences, i, result, max_sentences) ==
    ScanEntitiesUp(all_sentences, 0, i, result, max_sentences)

RECURSIVE ScanEntitiesAppending(_, _, _, _)
\* ScanEntities with result.append(sentence) for result.insert(0, sentence)
ScanEntitiesAppending(all_sentences, i, result, max_sentences) ==
    IF i < 0 THEN result
    ELSE IF i < Len(all_sentences) /\ HasNamedEntities(<<all_sentences[i + 1]>>)
         THEN IF Len(result) + 1 >= max_sentences
              THEN result \o <<all_sentences[i + 1]>>
              ELSE ScanEntitiesAppending(all_sentences, i - 1,
                                         result \o <<all_sentences[i + 1]>>, max_sentences)
         ELSE ScanEntitiesAppending(all_sentences, i - 1, result, max_sentences)

RECURSIVE ScanEntities(_, _, _, _)
\* lines 338-345: for i in range(current_start_idx - 1, -1, -1), from index i on
ScanEntities(all_sentences, i, result, max_sentences) ==
    IF i < 0 THEN result
    ELSE IF i < Len(all_sentences) /\ HasNamedEntities(<<all_sentences[i + 1]>>)
         THEN IF Len(result) + 1 >= max_sentences
              THEN <<all_sentences[i + 1]>> \o result
              ELSE ScanEntities(all_sentences, i - 1, <<all_sentences[i + 1]>> \o result,
                                max_sentences)
         ELSE ScanEntities(all_sentences, i - 1, result, max_sentences)

RECURSIVE ScanConcreteNouns(_, _, _, _, _)
\* lines 349-355: for i in range(current_start_idx - 1, stop, -1), from index i on;
\* stop itself is not visited
ScanConcreteNouns(all_sentences, i, stop, result, max_sentences) ==
    IF i <= stop THEN result
    ELSE IF i < Len(all_sentences) /\ HasConcreteNouns(<<all_sentences[i + 1]>>)
         THEN IF Len(result) + 1 >= max_sentences
              THEN <<all_sentences[i + 1]>> \o result
              ELSE ScanConcreteNouns(all_sentences, i - 1, stop,
                                     <<all_sentences[i + 1]>> \o result, max_sentences)
         ELSE ScanConcreteNouns(all_sentences, i - 1, stop, result, max_sentences)

\* _get_previous_sentences_with_entities
GetPreviousSentencesWithEntities(all_sentences, chunk_idx, all_chunks, max_sentences) ==
    IF chunk_idx = 0 THEN <<>>
    ELSE Local(CurrentStartIdx(all_sentences, chunk_idx, all_chunks),
               LAMBDA current_start_idx :
                 Local(ScanEntities(all_sentences, current_start_idx - 1, <<>>, max_sentences),
                       LAMBDA result :
                         IF result # <<>> THEN result
                         ELSE ScanConcreteNouns(all_sentences, current_start_idx - 1,
                                                Max(0, current_start_idx - 6), <<>>,
                                                max_sentences)))

(* ---------------- the three rules ---------------- *)

\* line 223: needs_prepending
NeedsPrepending(first_sentence) ==
    ~HasNamedEntities(<<first_sentence>>) /\ ContainsPronouns(<<first_sentence>>)

\* Prepend with the end_idx of the chunk kept
PrependKeepingEndIdx(chunk, new_sentences, chunk_sentences) ==
    [CreateChunk(Join(new_sentences \o chunk_sentences), chunk.start_idx,
                 chunk.metadata.chunk_id) EXCEPT !.end_idx = chunk.end_idx]

\* Prepend patching the text and end_idx of the chunk, its metadata kept
PrependKeepingMetadata(chunk, new_sentences, chunk_sentences) ==
    [chunk EXCEPT !.text = Join(new_sentences \o chunk_sentences),
                  !.end_idx = chunk.start_idx + CharLen(Join(new_sentences \o chunk_sentences))]

\* Prepend with _create_chunk's default chunk_id
PrependDefaultId(chunk, new_sentences, chunk_sentences) ==
    CreateChunk(Join(new_sentences \o chunk_sentences), chunk.start_idx, 0)

\* Prepend with the antecedents replacing the chunk's first sentence
PrependOverFirst(chunk, new_sentences, chunk_sentences) ==
    CreateChunk(Join(new_sentences \o Tail(chunk_sentences)), chunk.start_idx,
                chunk.metadata.chunk_id)

\* lines 236-238 (and 267-268, 298-299): the chunk rebuilt with the antecedents in front
Prepend(chunk, new_sentences, chunk_sentences) ==
    CreateChunk(Join(new_sentences \o chunk_sentences), chunk.start_idx,
                chunk.metadata.chunk_id)

\* ApplyStartRule rebuilding the chunk also when there is nothing to prepend,
\* with _create_chunk's default chunk_id
StartRuleRebuildingOnMiss(chunk, all_chunks, all_sentences, chunk_idx) ==
    LET chunk_sentences == SplitIntoSentences(chunk.text)
    IN IF chunk_idx = 0 \/ chunk_sentences = <<>> THEN chunk
       ELSE IF ~NeedsPrepending(chunk_sentences[1]) THEN chunk
       ELSE CreateChunk(
                Join(NotIn(GetPreviousSentencesWithEntities(all_sentences, chunk_idx,
                                                            all_chunks, 1),
                           chunk_sentences) \o chunk_sentences),
                chunk.start_idx, 0)

\* _apply_start_rule
ApplyStartRule(chunk, all_chunks, all_sentences, chunk_idx) ==
    LET chunk_sentences == SplitIntoSentences(chunk.text)
    IN IF chunk_idx = 0 THEN chunk
       ELSE IF chunk_sentences = <<>> THEN chunk
       ELSE IF ~NeedsPrepending(chunk_sentences[1]) THEN chunk
       ELSE Local(GetPreviousSentencesWithEntities(all_sentences, chunk_idx, all_chunks, 1),
                  LAMBDA previous_sentences :
                    Local(NotIn(previous_sentences, chunk_sentences),
                          LAMBDA unique_previous :
                            IF previous_sentences # <<>> /\ unique_previous # <<>>
                            THEN Prepend(chunk, unique_previous, chunk_sentences)
                            ELSE chunk))

\* lines 249-253: has_hazard
HasHazard(chunk_sentences) ==
    \E k \in 1..Len(chunk_sentences) :
        DensityAtLeastThreshold(CalculatePronounDensity(<<chunk_sentences[k]>>))

\* ApplyAnaphoraHazardRule with the trigger and the duplicate filter on the
\* sentences of the packed chunk all_chunks[chunk_idx], not of the chunk given
AnaphoraHazardRuleOnPacked(chunk, all_chunks, all_sentences, chunk_idx) ==
    LET chunk_sentences == SplitIntoSentences(chunk.text)
        packed_sentences == SplitIntoSentences(all_chunks[chunk_idx + 1].text)
        antecedent_sentences ==
            GetPreviousSentencesWithEntities(all_sentences, chunk_idx, all_chunks, 2)
        new_sentences == NotIn(antecedent_sentences, packed_sentences)
    IN IF chunk_sentences # <<>> /\ HasHazard(packed_sentences) /\ chunk_idx > 0
          /\ new_sentences # <<>>
       THEN Prepend(chunk, new_sentences, chunk_sentences)
       ELSE chunk

\* ApplyAnaphoraHazardRule with the lookup's default max_sentences = 1
AnaphoraHazardRuleOneAntecedent(chunk, all_chunks, all_sentences, chunk_idx) ==
    LET chunk_sentences == SplitIntoSentences(chunk.text)
        antecedent_sentences ==
            GetPreviousSentencesWithEntities(all_sentences, chunk_idx, all_chunks, 1)
        new_sentences == NotIn(antecedent_sentences, chunk_sentences)
    IN IF chunk_sentences # <<>> /\ HasHazard(chunk_sentences) /\ chunk_idx > 0
          /\ new_sentences # <<>>
       THEN Prepend(chunk, new_sentences, chunk_sentences)
       ELSE chunk

\* _apply_anaphora_hazard_rule
ApplyAnaphoraHazardRule(chunk, all_chunks, all_sentences, chunk_idx) ==
    LET chunk_sentences == SplitIntoSentences(chunk.text)
    IN IF chunk_sentences = <<>> THEN chunk
       ELSE IF ~HasHazard(chunk_sentences) THEN chunk
       ELSE IF chunk_idx > 0
            THEN Local(GetPreviousSentencesWithEntities(all_sentences, chunk_idx, all_chunks, 2),
                       LAMBDA antecedent_sentences :
                         Local(NotIn(antecedent_sentences, chunk_sentences),
                               LAMBDA new_sentences :
                                 IF antecedent_sentences # <<>> /\ new_sentences # <<>>
                                 THEN Prepend(chunk, new_sentences, chunk_sentences)
                                 ELSE chunk))
            ELSE chunk

HazardPronouns == {"he", "she", "they", "this", "that", "it"}

\* line 283: sentence.strip().split()[0].lower(); no sentence of Vocabulary has
\* punctuation attached to its first word, so the first word is the first token
FirstWord(sentence) ==
    IF StripSpan(sentence) = "" THEN "" ELSE Lower(Tokens(StripSpan(sentence))[1])

\* HasPronounStart looking at the first sentence of the chunk only
HasPronounStartFirstOnly(chunk_sentences) ==
    chunk_sentences # <<>> /\ FirstWord(chunk_sentences[1]) \in HazardPronouns

\* lines 281-286: has_pronoun_start
HasPronounStart(chunk_sentences) ==
    \E k \in 1..Len(chunk_sentences) : FirstWord(chunk_sentences[k]) \in HazardPronouns

\* ApplySentenceStartRule with the lookup asked for 2 antecedents
SentenceStartRuleTwoAntecedents(chunk, all_chunks, all_sentences, chunk_idx) ==
    LET chunk_sentences == SplitIntoSentences(chunk.text)
        antecedent_sentences ==
            GetPreviousSentencesWithEntities(all_sentences, chunk_idx, all_chunks, 2)
        unique_antecedents == NotIn(antecedent_sentences, chunk_sentences)
    IN IF chunk_sentences # <<>> /\ HasPronounStart(chunk_sentences) /\ chunk_idx > 0
          /\ unique_antecedents # <<>>
       THEN Prepend(chunk, unique_antecedents, chunk_sentences)
       ELSE chunk

\* _apply_sentence_start_rule
ApplySentenceStartRule(chunk, all_chunks, all_sentences, chunk_idx) ==
    LET chunk_sentences == SplitIntoSentences(chunk.text)
    IN IF chunk_sentences = <<>> THEN chunk
       ELSE IF ~HasPronounStart(chunk_sentences) THEN chunk
       ELSE IF chunk_idx > 0
            THEN Local(GetPreviousSentencesWithEntities(all_sentences, chunk_idx, all_chunks, 1),
                       LAMBDA antecedent_sentences :
                         Local(NotIn(antecedent_sentences, chunk_sentences),
                               LAMBDA unique_antecedents :
                                 IF antecedent_sentences # <<>> /\ unique_antecedents # <<>>
                                 THEN Prepend(chunk, unique_antecedents, chunk_sentences)
                                 ELSE chunk))
            ELSE chunk

(* ---------------- the state of one chunk() call ---------------- *)

VARIABLES
    text,               \* the argument of chunk()
    target_size,        \* self.target_size
    max_size,           \* self.max_size
    overlap_sentences,  \* self.overlap_sentences
    pc,                 \* the position in chunk() / _apply_coref_rules()
    sentences,          \* chunk(): sentences
    chunks,             \* chunk(): chunks, the packed list
    current_sentences,  \* chunk(): current_sentences
    current_token_count,\* chunk(): current_token_count
    sentence_start_idx, \* chunk(): sentence_start_idx
    i,                  \* chunk(): the index of the sentence the loop is at (0-based)
    updated_chunks,     \* _apply_coref_rules(): updated_chunks
    chunk_idx,          \* _apply_coref_rules(): the index of the chunk the loop is at
    after_start_rule,   \* _apply_coref_rules(): modified_chunk as line 199 sets it
    after_anaphora_rule,\* _apply_coref_rules(): modified_chunk as line 202 sets it
    result              \* the list chunk() returns

vars == <<text, target_size, max_size, overlap_sentences, pc, sentences, chunks,
          current_sentences, current_token_count, sentence_start_idx, i,
          updated_chunks, chunk_idx, after_start_rule, after_anaphora_rule, result>>

config == <<text, target_size, max_size, overlap_sentences>>

packer == <<current_sentences, current_token_count, sentence_start_idx, i>>

ruleloop == <<updated_chunks, chunk_idx, after_start_rule, after_anaphora_rule>>

\* the documents: every sequence of at most MaxLen sentences of Vocabulary
Documents == UNION {[1..n -> Vocabulary] : n \in 0..MaxLen}

\* the texts chunk() is called with: the documents, and whitespace-only texts
Texts == {Join(d) : d \in Documents} \cup {<<" ">>, <<" \t ">>}

\* the value of modified_chunk before the rules assign it
NoChunk == CreateChunk(<<>>, 0, 0)

Init ==
    /\ text \in Texts
    /\ target_size \in TargetSizes
    /\ max_size \in MaxSizes
    /\ overlap_sentences \in 0..MaxOverlap
    /\ pc = "chunk"
    /\ sentences = <<>>
    /\ chunks = <<>>
    /\ current_sentences = <<>>
    /\ current_token_count = 0
    /\ sentence_start_idx = 0
    /\ i = 0
    /\ updated_chunks = <<>>
    /\ chunk_idx = 0
    /\ after_start_rule = NoChunk
    /\ after_anaphora_rule = NoChunk
    /\ result = <<>>

\* lines 63-68: the sentences of the text, none for a blank text
SentencesOf(t) == IF Strip(t) = <<>> THEN <<>> ELSE SplitIntoSentences(t)

\* ReturnEmpty without the early returns: a chunk of the blank text
ReturnChunkOfBlank ==
    /\ pc = "chunk"
    /\ SentencesOf(text) = <<>>
    /\ sentences' = <<>>
    /\ result' = <<CreateChunk(text, 0, 0)>>
    /\ pc' = "done"
    /\ UNCHANGED <<config, chunks, packer, ruleloop>>

\* lines 63-68: blank text or no sentence: return []
ReturnEmpty ==
    /\ pc = "chunk"
    /\ SentencesOf(text) = <<>>
    /\ sentences' = <<>>
    /\ result' = <<>>
    /\ pc' = "done"
    /\ UNCHANGED <<config, chunks, packer, ruleloop>>

\* lines 70-71: one sentence: one chunk, built directly
ReturnSingle ==
    /\ pc = "chunk"
    /\ Len(SentencesOf(text)) = 1
    /\ sentences' = SentencesOf(text)
    /\ result' = <<CreateChunk(<<SentencesOf(text)[1]>>, 0, 0)>>
    /\ pc' = "done"
    /\ UNCHANGED <<config, chunks, packer, ruleloop>>

\* lines 73-76: two sentences or more: enter the packing loop
BeginPacking ==
    /\ pc = "chunk"
    /\ Len(SentencesOf(text)) >= 2
    /\ sentences' = SentencesOf(text)
    /\ chunks' = <<>>
    /\ current_sentences' = <<>>
    /\ current_token_count' = 0
    /\ sentence_start_idx' = 0
    /\ i' = 0
    /\ pc' = "pack"
    /\ UNCHANGED <<config, ruleloop, result>>

\* ExceedsTarget with the tokens already in the buffer left out of the sum
ExceedsTargetSentenceOnly(token_count, sentence_tokens, target, buffer) ==
    sentence_tokens > target /\ buffer # <<>>

\* ExceedsTarget with >= for >
ExceedsTargetOrEqual(token_count, sentence_tokens, target, buffer) ==
    token_count + sentence_tokens >= target /\ buffer # <<>>

\* ExceedsTarget without the test that the buffer holds a sentence
ExceedsTargetAnyBuffer(token_count, sentence_tokens, target, buffer) ==
    token_count + sentence_tokens > target

\* line 82: the condition that closes the buffer
ExceedsTarget(token_count, sentence_tokens, target, buffer) ==
    token_count + sentence_tokens > target /\ buffer # <<>>

\* OverlapOf with the slice taken from the front, buffer[:overlap]
OverlapFromFront(buffer, overlap) ==
    IF Len(buffer) >= overlap THEN SubSeq(buffer, 1, overlap) ELSE buffer

\* line 89: the sentences carried into the next buffer
OverlapOf(buffer, overlap) ==
    IF Len(buffer) >= overlap THEN LastN(buffer, overlap) ELSE buffer

\* lines 84-86 and 99-101: the buffer closed as the next chunk
CloseBuffer(packed, buffer, start_idx) ==
    Append(packed, CreateChunk(Join(buffer), start_idx, Len(packed)))

\* lines 73-76: the packer's locals before the loop
PackerStart ==
    [chunks |-> <<>>, current_sentences |-> <<>>, current_token_count |-> 0,
     sentence_start_idx |-> 0]

\* lines 79-95: one iteration of the loop, for sentence number idx (0-based)
PackSentence(st, sentence, idx, target, overlap) ==
    IF ExceedsTarget(st.current_token_count, CountTokens(<<sentence>>), target,
                     st.current_sentences)
    THEN LET carried == OverlapOf(st.current_sentences, overlap)
             buffer == carried \o <<sentence>>
         IN [chunks |-> CloseBuffer(st.chunks, st.current_sentences, st.sentence_start_idx),
             current_sentences |-> buffer,
             current_token_count |->
                 SumSeq([k \in 1..Len(buffer) |-> CountTokens(<<buffer[k]>>)]),
             sentence_start_idx |-> idx - Len(carried)]
    ELSE [chunks |-> st.chunks,
          current_sentences |-> Append(st.current_sentences, sentence),
          current_token_count |-> st.current_token_count + CountTokens(<<sentence>>),
          sentence_start_idx |-> st.sentence_start_idx]

\* lines 97-101: after the loop, the remaining buffer is the last chunk
PackFlush(st) ==
    IF st.current_sentences # <<>>
    THEN CloseBuffer(st.chunks, st.current_sentences, st.sentence_start_idx)
    ELSE st.chunks

\* the packer's locals as one record
PackerState ==
    [chunks |-> chunks, current_sentences |-> current_sentences,
     current_token_count |-> current_token_count,
     sentence_start_idx |-> sentence_start_idx]

SetPackerState(st) ==
    \E locals \in {st} :
        /\ chunks' = locals.chunks
        /\ current_sentences' = locals.current_sentences
        /\ current_token_count' = locals.current_token_count
        /\ sentence_start_idx' = locals.sentence_start_idx

\* PackClose that seeds the next buffer and looks at the same sentence again
PackCloseRetrying ==
    /\ pc = "pack"
    /\ i < Len(sentences)
    /\ ExceedsTarget(current_token_count, CountTokens(<<sentences[i + 1]>>), target_size,
                     current_sentences)
    /\ LET carried == OverlapOf(current_sentences, overlap_sentences)
       IN SetPackerState(
              [chunks |-> CloseBuffer(chunks, current_sentences, sentence_start_idx),
               current_sentences |-> carried,
               current_token_count |->
                   SumSeq([k \in 1..Len(carried) |-> CountTokens(<<carried[k]>>)]),
               sentence_start_idx |-> i - Len(carried)])
    /\ UNCHANGED <<config, pc, sentences, i, ruleloop, result>>

\* lines 82-92: the sentence does not fit: close the buffer, seed the next one
PackClose ==
    /\ pc = "pack"
    /\ i < Len(sentences)
    /\ ExceedsTarget(current_token_count, CountTokens(<<sentences[i + 1]>>), target_size,
                     current_sentences)
    /\ SetPackerState(PackSentence(PackerState, sentences[i + 1], i, target_size,
                                   overlap_sentences))
    /\ i' = i + 1
    /\ UNCHANGED <<config, pc, sentences, ruleloop, result>>

\* lines 93-95: the sentence fits (or the buffer is empty): append it
PackAppend ==
    /\ pc = "pack"
    /\ i < Len(sentences)
    /\ ~ExceedsTarget(current_token_count, CountTokens(<<sentences[i + 1]>>), target_size,
                      current_sentences)
    /\ SetPackerState(PackSentence(PackerState, sentences[i + 1], i, target_size,
                                   overlap_sentences))
    /\ i' = i + 1
    /\ UNCHANGED <<config, pc, sentences, ruleloop, result>>

\* Flush with the remaining buffer forgotten
FlushWithoutRemainder ==
    /\ pc = "pack"
    /\ i = Len(sentences)
    /\ pc' = "rules"
    /\ UNCHANGED <<config, sentences, chunks, packer, ruleloop, result>>

\* lines 97-101: the end of the loop
Flush ==
    /\ pc = "pack"
    /\ i = Len(sentences)
    /\ chunks' = PackFlush(PackerState)
    /\ pc' = "rules"
    /\ UNCHANGED <<config, sentences, packer, ruleloop, result>>

RECURSIVE PackFrom(_, _, _, _, _)
\* lines 78-95: the loop from sentence number idx on
PackFrom(all_sentences, idx, st, target, overlap) ==
    IF idx >= Len(all_sentences) THEN st
    ELSE PackFrom(all_sentences, idx + 1,
                  PackSentence(st, all_sentences[idx + 1], idx, target, overlap),
                  target, overlap)

\* lines 192-207: the three rules on the chunk at chunk_idx
ApplyRulesToChunk(chunk, all_chunks, all_sentences, idx) ==
    IF SplitIntoSentences(chunk.text) = <<>> THEN chunk
    ELSE ApplySentenceStartRule(
             ApplyAnaphoraHazardRule(
                 ApplyStartRule(chunk, all_chunks, all_sentences, idx),
                 all_chunks, all_sentences, idx),
             all_chunks, all_sentences, idx)

\* _apply_coref_rules
ApplyCorefRules(all_chunks, all_sentences) ==
    IF Len(all_chunks) <= 1 THEN all_chunks
    ELSE [k \in 1..Len(all_chunks) |->
            ApplyRulesToChunk(all_chunks[k], all_chunks, all_sentences, k - 1)]

\* lines 73-106: the packing loop followed by the rules
PackAndApplyRules(all_sentences, target, overlap) ==
    ApplyCorefRules(PackFlush(PackFrom(all_sentences, 0, PackerStart, target, overlap)),
                    all_sentences)

\* RulesSkip returning updated_chunks, which is still empty, for chunks
RulesSkipReturningUpdated ==
    /\ pc = "rules"
    /\ Len(chunks) <= 1
    /\ result' = updated_chunks
    /\ pc' = "done"
    /\ UNCHANGED <<config, sentences, chunks, packer, ruleloop>>

\* lines 53-106: the list chunk() returns for a text, as a function of the text,
\* target_size and overlap_sentences
ChunkResult(t, target, overlap) ==
    IF SentencesOf(t) = <<>> THEN <<>>
    ELSE IF Len(SentencesOf(t)) = 1 THEN <<CreateChunk(<<SentencesOf(t)[1]>>, 0, 0)>>
    ELSE PackAndApplyRules(SentencesOf(t), target, overlap)

\* lines 187-188 and 104-106: one chunk: no rule runs
RulesSkip ==
    /\ pc = "rules"
    /\ Len(chunks) <= 1
    /\ result' = chunks
    /\ pc' = "done"
    /\ UNCHANGED <<config, sentences, chunks, packer, ruleloop>>

\* line 190: several chunks: enter the loop over the chunks
RulesBegin ==
    /\ pc = "rules"
    /\ Len(chunks) > 1
    /\ updated_chunks' = <<>>
    /\ chunk_idx' = 0
    /\ pc' = "rule_loop"
    /\ UNCHANGED <<config, sentences, chunks, packer, after_start_rule,
                   after_anaphora_rule, result>>

\* RulesOnChunk with max_size enforced: a chunk the rules made larger than
\* max_size is dropped for the packed chunk
RulesOnChunkWithinMaxSize ==
    /\ pc = "rule_loop"
    /\ chunk_idx < Len(chunks)
    /\ LET chunk == chunks[chunk_idx + 1]
           modified == ApplyRulesToChunk(chunk, chunks, sentences, chunk_idx)
       IN updated_chunks' =
              Append(updated_chunks,
                     IF modified.metadata.token_count > max_size THEN chunk ELSE modified)
    /\ after_start_rule' = ApplyStartRule(chunks[chunk_idx + 1], chunks, sentences, chunk_idx)
    /\ after_anaphora_rule' =
           ApplyAnaphoraHazardRule(after_start_rule', chunks, sentences, chunk_idx)
    /\ chunk_idx' = chunk_idx + 1
    /\ UNCHANGED <<config, pc, sentences, chunks, packer, result>>

\* lines 192-207: one iteration of the loop: the three rules, in order, on the
\* chunk at chunk_idx, each on the chunk the rule before it returned
RulesOnChunk ==
    /\ pc = "rule_loop"
    /\ chunk_idx < Len(chunks)
    /\ LET chunk == chunks[chunk_idx + 1]
       IN IF SplitIntoSentences(chunk.text) = <<>>
          THEN /\ updated_chunks' = Append(updated_chunks, chunk)
               /\ UNCHANGED <<after_start_rule, after_anaphora_rule>>
          ELSE /\ after_start_rule' = ApplyStartRule(chunk, chunks, sentences, chunk_idx)
               /\ after_anaphora_rule' =
                      ApplyAnaphoraHazardRule(after_start_rule', chunks, sentences, chunk_idx)
               /\ updated_chunks' =
                      Append(updated_chunks,
                             ApplySentenceStartRule(after_anaphora_rule', chunks, sentences,
                                                    chunk_idx))
    /\ chunk_idx' = chunk_idx + 1
    /\ UNCHANGED <<config, pc, sentences, chunks, packer, result>>

\* lines 209 and 104-106: every chunk is done: return the updated list
ReturnUpdated ==
    /\ pc = "rule_loop"
    /\ chunk_idx = Len(chunks)
    /\ result' = updated_chunks
    /\ pc' = "done"
    /\ UNCHANGED <<config, sentences, chunks, packer, ruleloop>>

Next ==
    \/ ReturnEmpty
    \/ ReturnSingle
    \/ BeginPacking
    \/ PackClose
    \/ PackAppend
    \/ Flush
    \/ RulesSkip
    \/ RulesBegin
    \/ RulesOnChunk
    \/ ReturnUpdated

Spec == Init /\ [][Next]_vars

(* ---------------- chunkers that differ in max_size ---------------- *)

\* the values of max_size compared: below every sentence, between the sentences,
\* above every chunk
ComparedMaxSizes == {1, 12, 40}

\* the texts the compared chunkers are called with
ComparedTexts ==
    {Join(d) : d \in UNION {[1..n -> Vocabulary] : n \in 0..(MaxLen - 1)}}
    \cup {<<" ">>, <<" \t ">>}

InitMaxSize ==
    /\ text \in ComparedTexts
    /\ target_size \in TargetSizes
    /\ max_size \in ComparedMaxSizes
    /\ overlap_sentences \in 0..MaxOverlap
    /\ pc = "chunk"
    /\ sentences = <<>>
    /\ chunks = <<>>
    /\ current_sentences = <<>>
    /\ current_token_count = 0
    /\ sentence_start_idx = 0
    /\ i = 0
    /\ updated_chunks = <<>>
    /\ chunk_idx = 0
    /\ after_start_rule = NoChunk
    /\ after_anaphora_rule = NoChunk
    /\ result = <<>>

SpecMaxSize == InitMaxSize /\ [][Next]_vars

(* ---------------- the call run to its end ---------------- *)

\* the values of target_size of the terminating calls: negative, zero, positive
TerminationTargetSizes == {-1, 0, 11}

\* the sentences of the texts of the terminating calls: one with an entity, one
\* larger than every target_size, one starting on a pronoun
TerminationVocabulary == {SentJohn, SentThen, SentIt}

TerminationTexts ==
    {Join(d) : d \in UNION {[1..n -> TerminationVocabulary] : n \in 0..(MaxLen - 1)}}
    \cup {<<" ">>, <<" \t ">>}

\* before the chunker is constructed: no configuration, no text yet
InitTermination ==
    /\ text = <<>>
    /\ target_size = 0
    /\ max_size = 0
    /\ overlap_sentences = 0
    /\ pc = "call"
    /\ sentences = <<>>
    /\ chunks = <<>>
    /\ current_sentences = <<>>
    /\ current_token_count = 0
    /\ sentence_start_idx = 0
    /\ i = 0
    /\ updated_chunks = <<>>
    /\ chunk_idx = 0
    /\ after_start_rule = NoChunk
    /\ after_anaphora_rule = NoChunk
    /\ result = <<>>

\* lines 34-53: the chunker is constructed and chunk() is called with a text
Call ==
    /\ pc = "call"
    /\ text' \in TerminationTexts
    /\ target_size' \in TerminationTargetSizes
    /\ max_size' \in MaxSizes
    /\ overlap_sentences' \in 0..MaxOverlap
    /\ pc' = "chunk"
    /\ UNCHANGED <<sentences, chunks, packer, ruleloop, result>>

NextTermination ==
    \/ Call
    \/ Next

\* chunk() is one sequential call: the interpreter runs it step after step
FairSpec == InitTermination /\ [][NextTermination]_vars /\ WF_vars(NextTermination)

(* ---------------- the properties ---------------- *)

\* the sentences of a chunk
SentencesOfChunk(chunk) == SplitIntoSentences(chunk.text)

\* packing is just over: chunks is the list the packer produced
Packed == pc = "rules"

\* chunk() has returned
Returned == pc = "done"

\* every sentence of the document is in a chunk of the list
Covers(list) ==
    \A k \in 1..Len(sentences) :
        \E c \in 1..Len(list) : InList(sentences[k], SentencesOfChunk(list[c]))

RECURSIVE IsSubsequence(_, _)
\* a is b with some elements left out
IsSubsequence(a, b) ==
    IF a = <<>> THEN TRUE
    ELSE IF b = <<>> THEN FALSE
    ELSE IF Head(a) = Head(b) THEN IsSubsequence(Tail(a), Tail(b))
    ELSE IsSubsequence(a, Tail(b))

\* a is the end of b
IsSuffix(a, b) ==
    Len(a) <= Len(b) /\ SubSeq(b, Len(b) - Len(a) + 1, Len(b)) = a

\* no text occurs twice
PairwiseDistinct(list) ==
    \A a, b \in 1..Len(list) : list[a] = list[b] => a = b

\* C1: every sentence of a document with at least one sentence is in some chunk,
\* in the packed list and in the returned list
C1_Coverage ==
    /\ Packed => Covers(chunks)
    /\ Returned /\ sentences # <<>> => Covers(result)

C1_Witness ==
    /\ Returned
    /\ Len(sentences) >= 3
    /\ Len(result) >= 2
    /\ \E c \in 1..Len(result) :
           Len(SentencesOfChunk(result[c])) > Len(SentencesOfChunk(chunks[c]))

\* C2: the sentences of every returned chunk are in document order: they are
\* the document's sentence sequence with some sentences left out
C2_OrderPreserved ==
    Returned =>
        \A c \in 1..Len(result) : IsSubsequence(SentencesOfChunk(result[c]), sentences)

\* a chunk to which two antecedents were prepended
C2_Witness ==
    /\ Returned
    /\ Len(result) = Len(chunks)
    /\ \E c \in 1..Len(chunks) :
           Len(SentencesOfChunk(result[c])) >= Len(SentencesOfChunk(chunks[c])) + 2

\* C3: the rules only prepend: as many chunks as packed, and each packed chunk's
\* sentence list is the end of the returned chunk's
C3_OnlyPrepend ==
    Returned /\ Len(sentences) >= 2 =>
        /\ Len(result) = Len(chunks)
        /\ \A c \in 1..Len(chunks) :
               IsSuffix(SentencesOfChunk(chunks[c]), SentencesOfChunk(result[c]))

C3_Witness ==
    /\ Returned
    /\ Len(chunks) >= 2
    /\ \E c \in 1..Len(chunks) : result[c].text # chunks[c].text

\* C4: with two packed chunks or more, each packed chunk begins with the last
\* min(overlap_sentences, length of the chunk before it) sentences of the chunk
\* before it
C4_Overlap ==
    Packed /\ Len(chunks) >= 2 =>
        \A c \in 1..(Len(chunks) - 1) :
            LET earlier == SentencesOfChunk(chunks[c])
                later == SentencesOfChunk(chunks[c + 1])
                n == Min(overlap_sentences, Len(earlier))
            IN /\ Len(later) >= n
               /\ SubSeq(later, 1, n) = SubSeq(earlier, Len(earlier) - n + 1, Len(earlier))

\* an overlap of two sentences out of a longer chunk
C4_Witness ==
    /\ Packed
    /\ overlap_sentences = 2
    /\ \E c \in 1..(Len(chunks) - 1) :
           /\ Len(SentencesOfChunk(chunks[c])) >= 3
           /\ Len(SentencesOfChunk(chunks[c + 1])) >= 3

\* C5: a text without sentences (empty or whitespace only) returns the empty list
C5_EmptyInput ==
    Returned /\ (text = <<>> \/ \A k \in 1..Len(text) : text[k] \in BlankSpans) =>
        result = <<>>

C5_Witness ==
    /\ Returned
    /\ text # <<>>
    /\ \A k \in 1..Len(text) : text[k] \in BlankSpans
    /\ result = <<>>

\* C6: a document of one sentence returns one chunk, the whole sentence, with
\* chunk_id 0 and nothing prepended, whatever its size; it is what the packing
\* loop followed by the rules returns for that document
C6_SingleSentence ==
    Returned /\ Len(sentences) = 1 =>
        /\ Len(result) = 1
        /\ result[1].text = <<sentences[1]>>
        /\ result[1].metadata.chunk_id = 0
        /\ result = PackAndApplyRules(sentences, target_size, overlap_sentences)

\* one sentence above target_size and max_size
C6_Witness ==
    /\ Returned
    /\ Len(sentences) = 1
    /\ Len(result) = 1
    /\ result[1].metadata.token_count > target_size
    /\ result[1].metadata.token_count > max_size

\* C7: token_count, sentence_count, has_entities and pronoun_density of every
\* returned chunk are the values of its final text
C7_MetadataFresh ==
    Returned =>
        \A c \in 1..Len(result) :
            /\ result[c].metadata.token_count = CountTokens(result[c].text)
            /\ result[c].metadata.sentence_count = Len(SplitIntoSentences(result[c].text))
            /\ result[c].metadata.has_entities = HasNamedEntities(result[c].text)
            /\ result[c].metadata.pronoun_density = CalculatePronounDensity(result[c].text)

\* a rebuilt chunk whose has_entities differs from the packed chunk's
C7_Witness ==
    /\ Returned
    /\ Len(result) = Len(chunks)
    /\ \E c \in 1..Len(chunks) :
           /\ result[c].text # chunks[c].text
           /\ result[c].metadata.has_entities # chunks[c].metadata.has_entities

\* C8: the returned chunk at position c (0-based) has chunk_id c
C8_ChunkIds ==
    Returned =>
        \A c \in 1..Len(result) : result[c].metadata.chunk_id = c - 1

\* a rebuilt chunk past position 0
C8_Witness ==
    /\ Returned
    /\ Len(result) = Len(chunks)
    /\ \E c \in 2..Len(chunks) :
           /\ result[c].text # chunks[c].text
           /\ result[c].metadata.chunk_id = c - 1

\* the position (1-based) of a sentence in a document of pairwise distinct sentences
PositionOf(sentence) == CHOOSE k \in 1..Len(sentences) : sentences[k] = sentence

\* the positions before p of the sentences with a named entity
EntitiesBefore(p) == {q \in 1..(p - 1) : HasNamedEntities(<<sentences[q]>>)}

\* the largest element of a non-empty set of numbers
Largest(S) == CHOOSE q \in S : \A r \in S : r <= q

\* C9: Rule A: in a document of pairwise distinct sentences, a chunk past
\* position 0 whose packed first sentence has a pronoun and no named entity, with
\* a named-entity sentence before its start, is returned with the nearest such
\* sentence in front of its packed first sentence
C9_StartRule ==
    Returned /\ Len(sentences) >= 2 /\ PairwiseDistinct(sentences) =>
        \A c \in 2..Len(chunks) :
            LET first == SentencesOfChunk(chunks[c])[1]
                before == EntitiesBefore(PositionOf(first))
                final == SentencesOfChunk(result[c])
            IN ContainsPronouns(<<first>>) /\ ~HasNamedEntities(<<first>>) /\ before # {} =>
                   \E a, b \in 1..Len(final) :
                       /\ a < b
                       /\ final[a] = sentences[Largest(before)]
                       /\ final[b] = first

\* such a chunk, with two named-entity sentences before it
C9_Witness ==
    /\ Returned
    /\ PairwiseDistinct(sentences)
    /\ \E c \in 2..Len(chunks) :
           LET first == SentencesOfChunk(chunks[c])[1]
           IN /\ ContainsPronouns(<<first>>)
              /\ ~HasNamedEntities(<<first>>)
              /\ Cardinality(EntitiesBefore(PositionOf(first))) = 2
              /\ SentencesOfChunk(result[c])[1] = sentences[Largest(EntitiesBefore(PositionOf(first)))]

\* some sentence has pronoun tokens / tokens >= 0.15
SomeSentenceDense(chunk_sentences) ==
    \E k \in 1..Len(chunk_sentences) :
        PronounCount(<<chunk_sentences[k]>>) * 100 >= 15 * CountTokens(<<chunk_sentences[k]>>)

\* the rules have run on the chunk at position chunk_idx - 1 (0-based)
RulesRanOnChunk == pc \in {"rule_loop", "done"} /\ chunk_idx >= 1

\* C10: Rule B leaves a chunk all of whose sentences are below density 0.15 as it
\* is, and prepends the antecedents the chunk lacks to a chunk with a sentence of
\* density >= 0.15, a density of exactly 0.15 included
C10_DensityThreshold ==
    RulesRanOnChunk =>
        LET chunk_sentences == SentencesOfChunk(after_start_rule)
            lacking == NotIn(GetPreviousSentencesWithEntities(sentences, chunk_idx - 1, chunks, 2),
                             chunk_sentences)
        IN /\ ~SomeSentenceDense(chunk_sentences) => after_anaphora_rule = after_start_rule
           /\ SomeSentenceDense(chunk_sentences) /\ lacking # <<>> =>
                  after_anaphora_rule.text = Join(lacking \o chunk_sentences)

\* Rule B has prepended to a chunk whose densest sentence is at exactly 0.15
\* and which Rule A left alone
C10_Witness ==
    /\ RulesRanOnChunk
    /\ LET packed == SentencesOfChunk(chunks[chunk_idx])
       IN /\ \E k \in 1..Len(packed) :
                 PronounCount(<<packed[k]>>) * 100 = 15 * CountTokens(<<packed[k]>>)
          /\ \A k \in 1..Len(packed) :
                 PronounCount(<<packed[k]>>) * 100 <= 15 * CountTokens(<<packed[k]>>)
          /\ after_start_rule = chunks[chunk_idx]
          /\ Len(SentencesOfChunk(after_anaphora_rule)) > Len(packed)

\* the n largest elements of a set of numbers
Nearest(S, n) == {q \in S : Cardinality({r \in S : r > q}) < n}

\* the sentences at the positions of S are in the list, in document order, all
\* of them before the sentence first
InFrontInOrder(S, list, first) ==
    \A q \in S :
        \E a \in 1..Len(list) :
            /\ list[a] = sentences[q]
            /\ \E b \in (a + 1)..Len(list) : list[b] = first
            /\ \A r \in S : r > q => \E b \in (a + 1)..Len(list) : list[b] = sentences[r]

\* C11: Rule B: in a document of pairwise distinct sentences, a chunk past
\* position 0 with a sentence of pronoun density >= 0.15 is returned holding the
\* two nearest named-entity sentences before its start (the only one, if there
\* is just one), in document order in front of its packed sentences
C11_AnaphoraRule ==
    Returned /\ Len(sentences) >= 2 /\ PairwiseDistinct(sentences) =>
        \A c \in 2..Len(chunks) :
            LET packed == SentencesOfChunk(chunks[c])
            IN SomeSentenceDense(packed) =>
                   InFrontInOrder(Nearest(EntitiesBefore(PositionOf(packed[1])), 2),
                                  SentencesOfChunk(result[c]), packed[1])

\* such a chunk that Rule A leaves alone, with two named-entity sentences before
\* its start and a third sentence before it
C11_Witness ==
    /\ Returned
    /\ PairwiseDistinct(sentences)
    /\ \E c \in 2..Len(chunks) :
           LET packed == SentencesOfChunk(chunks[c])
           IN /\ SomeSentenceDense(packed)
              /\ ~ContainsPronouns(<<packed[1]>>)
              /\ PositionOf(packed[1]) = 3
              /\ Cardinality(EntitiesBefore(PositionOf(packed[1]))) = 2
              /\ Len(SentencesOfChunk(result[c])) = Len(packed) + 2

\* C12: Rule C: in a document of pairwise distinct sentences, a chunk past
\* position 0 one of whose sentences starts with he, she, they, this, that or it
\* is returned holding the nearest named-entity sentence before its start, when
\* there is one
C12_SentenceStartRule ==
    Returned /\ Len(sentences) >= 2 /\ PairwiseDistinct(sentences) =>
        \A c \in 2..Len(chunks) :
            LET packed == SentencesOfChunk(chunks[c])
            IN (\E k \in 1..Len(packed) :
                    FirstWord(packed[k]) \in {"he", "she", "they", "this", "that", "it"}) =>
                   InFrontInOrder(Nearest(EntitiesBefore(PositionOf(packed[1])), 1),
                                  SentencesOfChunk(result[c]), packed[1])

\* such a chunk whose pronoun-start sentence is not its first, that Rule A and
\* Rule B leave alone
C12_Witness ==
    /\ Returned
    /\ PairwiseDistinct(sentences)
    /\ \E c \in 2..Len(chunks) :
           LET packed == SentencesOfChunk(chunks[c])
           IN /\ \E k \in 2..Len(packed) : FirstWord(packed[k]) = "it"
              /\ ~ContainsPronouns(<<packed[1]>>)
              /\ ~SomeSentenceDense(packed)
              /\ EntitiesBefore(PositionOf(packed[1])) # {}
              /\ Len(SentencesOfChunk(result[c])) = Len(packed) + 1

\* the lookup for max_sentences antecedents of the chunk the rules have just run
\* on returns no sentence that the chunk given to the rule lacks
LookupMiss(chunk, max_sentences) ==
    NotIn(GetPreviousSentencesWithEntities(sentences, chunk_idx - 1, chunks, max_sentences),
          SentencesOfChunk(chunk)) = <<>>

\* C13: a rule whose lookup returns no antecedent, or only antecedents the chunk
\* already holds, returns the chunk it was given: same text, start_idx, end_idx
\* and metadata
C13_LookupMissNoOp ==
    RulesRanOnChunk =>
        /\ LookupMiss(chunks[chunk_idx], 1) => after_start_rule = chunks[chunk_idx]
        /\ LookupMiss(after_start_rule, 2) => after_anaphora_rule = after_start_rule
        /\ LookupMiss(after_anaphora_rule, 1) =>
               updated_chunks[chunk_idx] = after_anaphora_rule

\* a chunk past position 0, not starting on the first sentence of the document,
\* on which Rule A and Rule C trigger and the lookup finds nothing
C13_Witness ==
    /\ RulesRanOnChunk
    /\ chunk_idx >= 2
    /\ NeedsPrepending(SentencesOfChunk(chunks[chunk_idx])[1])
    /\ HasPronounStart(SentencesOfChunk(chunks[chunk_idx]))
    /\ GetPreviousSentencesWithEntities(sentences, chunk_idx - 1, chunks, 2) = <<>>
    /\ updated_chunks[chunk_idx] = chunks[chunk_idx]
    /\ sentences[1] # SentencesOfChunk(chunks[chunk_idx])[1]

\* C14: the Start Rule applied again to a chunk it has repaired returns that
\* chunk, whether the prepended sentence has a named entity or is a concrete-noun
\* sentence with a pronoun of its own
C14_StartRuleIdempotent ==
    RulesRanOnChunk /\ after_start_rule # chunks[chunk_idx] =>
        ApplyStartRule(after_start_rule, chunks, sentences, chunk_idx - 1) = after_start_rule

\* a chunk repaired with a concrete-noun sentence that has a pronoun and no
\* named entity: the rule's trigger holds again on the repaired chunk
C14_Witness ==
    /\ RulesRanOnChunk
    /\ after_start_rule # chunks[chunk_idx]
    /\ NeedsPrepending(SentencesOfChunk(after_start_rule)[1])
    /\ HasConcreteNouns(<<SentencesOfChunk(after_start_rule)[1]>>)

\* C15: every returned chunk has at most max_size tokens
C15_MaxSizeHardLimit ==
    Returned =>
        \A c \in 1..Len(result) : CountTokens(result[c].text) <= max_size

\* C16: no returned chunk has a first sentence that begins with he, she, they or
\* it and has no named entity
C16_NoBarePronounStart ==
    Returned =>
        \A c \in 1..Len(result) :
            LET first == SentencesOfChunk(result[c])[1]
            IN ~(FirstWord(first) \in {"he", "she", "they", "it"}
                 /\ ~HasNamedEntities(<<first>>))

\* the tokens of the sentences of a buffer
BufferTokens(buffer) == SumSeq([k \in 1..Len(buffer) |-> CountTokens(<<buffer[k]>>)])

\* C17: a step of the packing loop on a non-empty buffer of t tokens and a
\* sentence of s tokens closes the buffer exactly when t + s > target_size; at
\* t + s = target_size the sentence joins the buffer and no chunk is closed
C17_TieBreak ==
    [][pc = "pack" /\ pc' = "pack" /\ current_sentences # <<>> =>
          LET t == BufferTokens(current_sentences)
              s == CountTokens(<<sentences[i + 1]>>)
          IN /\ (Len(chunks') = Len(chunks) + 1) <=> (t + s > target_size)
             /\ (Len(chunks') = Len(chunks)) <=> (t + s <= target_size)
             /\ t + s = target_size =>
                    /\ chunks' = chunks
                    /\ current_sentences' = Append(current_sentences, sentences[i + 1])]_vars

\* a buffer that a sentence has filled to exactly target_size, no chunk closed
C17_Witness ==
    /\ pc = "pack"
    /\ chunks = <<>>
    /\ Len(current_sentences) >= 2
    /\ BufferTokens(current_sentences) = target_size

\* C18: when a step of the packing loop closes the buffer, the next buffer is
\* the last overlap_sentences sentences of the closed one (all of them if it has
\* fewer) followed by the current sentence; for overlap_sentences = 0 it is the
\* current sentence alone
C18_OverlapSeeding ==
    [][pc = "pack" /\ pc' = "pack" /\ Len(chunks') = Len(chunks) + 1 =>
          LET n == Min(overlap_sentences, Len(current_sentences))
          IN current_sentences' =
                 SubSeq(current_sentences, Len(current_sentences) - n + 1,
                        Len(current_sentences)) \o <<sentences[i + 1]>>]_vars

\* one sentence of the list alone has more than target_size tokens
SomeSentenceOversized(list) ==
    \E k \in 1..Len(list) : CountTokens(<<list[k]>>) > target_size

\* C19 as claimed: a packed chunk has more than target_size tokens only if one of
\* its sentences alone has more than target_size tokens
C19_PackedSizeBounded ==
    Packed =>
        \A c \in 1..Len(chunks) :
            LET packed == SentencesOfChunk(chunks[c])
            IN BufferTokens(packed) > target_size => SomeSentenceOversized(packed)

\* the packed chunk at position c (1-based) is sentences that end the chunk
\* before it, followed by one more sentence
CarriedPlusOne(c) ==
    /\ c >= 2
    /\ IsSuffix(SubSeq(SentencesOfChunk(chunks[c]), 1, Len(SentencesOfChunk(chunks[c])) - 1),
                SentencesOfChunk(chunks[c - 1]))

\* C19 as amended: a packed chunk has more than target_size tokens only if one of
\* its sentences alone has more than target_size tokens, or it is the sentences
\* carried over from the chunk before it followed by a single further sentence
C19_PackedSizeBoundedPastOverlap ==
    Packed =>
        \A c \in 1..Len(chunks) :
            LET packed == SentencesOfChunk(chunks[c])
            IN BufferTokens(packed) > target_size =>
                   SomeSentenceOversized(packed) \/ CarriedPlusOne(c)

\* a packed chunk above target_size none of whose sentences is, made of one
\* carried sentence and one further sentence, and a later chunk within target_size
C19_Witness ==
    /\ Packed
    /\ overlap_sentences = 1
    /\ \E c \in 2..Len(chunks) :
           /\ Len(SentencesOfChunk(chunks[c])) = 2
           /\ BufferTokens(SentencesOfChunk(chunks[c])) > target_size
           /\ ~SomeSentenceOversized(SentencesOfChunk(chunks[c]))
    /\ \E c \in 2..Len(chunks) :
           /\ Len(SentencesOfChunk(chunks[c])) >= 2
           /\ BufferTokens(SentencesOfChunk(chunks[c])) <= target_size

\* C20: for a packed chunk that starts at document position p >= 1 (0-based),
\* with no named-entity sentence before p and a concrete noun in the sentence at
\* p - 1, the lookup for one antecedent returns the sentence at p - 1, for p = 1
\* as for every other p
C20_ConcreteNounFallback ==
    Packed =>
        \A c \in 1..Len(chunks) :
            LET p == chunks[c].start_idx
            IN p >= 1 /\ EntitiesBefore(p + 1) = {} /\ HasConcreteNouns(<<sentences[p]>>) =>
                   GetPreviousSentencesWithEntities(sentences, c - 1, chunks, 1) =
                       <<sentences[p]>>

\* C21: for a packed chunk that begins at document position p (0-based), the
\* lookup for one antecedent returns the nearest named-entity sentence at a
\* position below p when there is one, also when the text of the chunk's first
\* sentence occurs earlier in the document
C21_LookupFromActualStart ==
    Packed =>
        \A c \in 2..Len(chunks) :
            LET before == EntitiesBefore(chunks[c].start_idx + 1)
            IN before # {} =>
                   GetPreviousSentencesWithEntities(sentences, c - 1, chunks, 1) =
                       <<sentences[Largest(before)]>>

\* the chunk the three rules returned for the chunk at chunk_idx - 1
AfterSentenceStartRule == updated_chunks[chunk_idx]

\* C22: the lookup skips the sentences the chunk already holds: on a chunk that
\* Rule A extended and that has a sentence starting with a hazard pronoun, Rule C
\* prepends a further antecedent when a second named-entity sentence, not in the
\* chunk, precedes the chunk
C22_LookupSkipsPresent ==
    RulesRanOnChunk /\ PairwiseDistinct(sentences) =>
        LET current == SentencesOfChunk(after_anaphora_rule)
            further == {q \in EntitiesBefore(chunks[chunk_idx].start_idx + 1) :
                          ~InList(sentences[q], current)}
        IN /\ after_start_rule # chunks[chunk_idx]
           /\ \E k \in 1..Len(current) :
                  FirstWord(current[k]) \in {"he", "she", "they", "this", "that", "it"}
           /\ further # {}
           => /\ Len(SentencesOfChunk(AfterSentenceStartRule)) = Len(current) + 1
              /\ SentencesOfChunk(AfterSentenceStartRule)[1] = sentences[Largest(further)]

\* the chunk after is the chunk before with sentences in front, none of which
\* the chunk before holds
OnlyNewInFront(before, after) ==
    LET old == SentencesOfChunk(before)
        new == SentencesOfChunk(after)
    IN /\ IsSuffix(old, new)
       /\ \A k \in 1..(Len(new) - Len(old)) : ~InList(new[k], old)

\* a sentence of the chunk starts with he, she, they, this, that or it
SomeSentenceStartsOnPronoun(chunk) ==
    LET chunk_sentences == SentencesOfChunk(chunk)
    IN \E k \in 1..Len(chunk_sentences) :
           FirstWord(chunk_sentences[k]) \in {"he", "she", "they", "this", "that", "it"}

\* C23: on every chunk of a result of several chunks the rules run in the order
\* A, B, C, each on the chunk the rule before it returned: Rule B's trigger and
\* filter see Rule A's sentences and Rule C's see Rule B's, so no rule prepends
\* a sentence an earlier rule prepended, and the chunk returned is Rule C's
C23_RuleOrder ==
    /\ RulesRanOnChunk =>
           /\ OnlyNewInFront(chunks[chunk_idx], after_start_rule)
           /\ OnlyNewInFront(after_start_rule, after_anaphora_rule)
           /\ OnlyNewInFront(after_anaphora_rule, AfterSentenceStartRule)
           /\ ~SomeSentenceDense(SentencesOfChunk(after_start_rule)) =>
                  after_anaphora_rule = after_start_rule
           /\ ~SomeSentenceStartsOnPronoun(after_anaphora_rule) =>
                  AfterSentenceStartRule = after_anaphora_rule
    /\ Returned /\ Len(chunks) > 1 => result = updated_chunks /\ Len(result) = Len(chunks)

\* a chunk to which Rule A and then Rule B each prepended a sentence and on
\* which Rule C triggered and found nothing new
C23_Witness ==
    /\ RulesRanOnChunk
    /\ Len(SentencesOfChunk(after_start_rule)) = Len(SentencesOfChunk(chunks[chunk_idx])) + 1
    /\ Len(SentencesOfChunk(after_anaphora_rule)) = Len(SentencesOfChunk(after_start_rule)) + 1
    /\ SomeSentenceStartsOnPronoun(after_anaphora_rule)
    /\ AfterSentenceStartRule = after_anaphora_rule

\* the spans of the text that are sentences, in order (1-based indices into text)
SentenceSpans == SelectSeq([k \in 1..Len(text) |-> k], LAMBDA k : StripSpan(text[k]) # "")

\* the character offset in the text at which sentence number j (1-based) begins
OffsetOfSentence(j) == SumSeq([k \in 1..(SentenceSpans[j] - 1) |-> Len(text[k])])

\* no rule modified the returned chunk at position c (1-based)
Unmodified(c) == chunks = <<>> \/ result[c] = chunks[c]

\* C24: a returned chunk that no rule modified has the character offset of its
\* first sentence in the document as start_idx, and text[start_idx:end_idx] is
\* the chunk's text
C24_CharacterOffsets ==
    Returned =>
        \A c \in 1..Len(result) :
            Unmodified(c) =>
                \E j \in 1..Len(sentences) :
                    /\ j + Len(SentencesOfChunk(result[c])) - 1 <= Len(sentences)
                    /\ SubSeq(sentences, j, j + Len(SentencesOfChunk(result[c])) - 1) =
                           SentencesOfChunk(result[c])
                    /\ result[c].start_idx = OffsetOfSentence(j)
                    /\ result[c].end_idx = OffsetOfSentence(j) + CharLen(result[c].text)

\* C25: every returned chunk has end_idx - start_idx = len(text); a chunk that a
\* rule rebuilt has the start_idx it was packed with
C25_IndexSpan ==
    Returned =>
        \A c \in 1..Len(result) :
            /\ result[c].end_idx - result[c].start_idx = CharLen(result[c].text)
            /\ chunks # <<>> => result[c].start_idx = chunks[c].start_idx

\* a rebuilt chunk with a start_idx above 0
C25_Witness ==
    /\ Returned
    /\ Len(result) = Len(chunks)
    /\ \E c \in 1..Len(chunks) :
           /\ result[c].text # chunks[c].text
           /\ result[c].start_idx > 0
           /\ result[c].end_idx > chunks[c].end_idx

\* C26: a chunk packed without a sentence text twice is returned without a
\* sentence text twice, in every document, also one in which a sentence text
\* occurs at several positions
C26_NoDuplicateContent ==
    Returned /\ chunks # <<>> =>
        \A c \in 1..Len(chunks) :
            PairwiseDistinct(SentencesOfChunk(chunks[c])) =>
                PairwiseDistinct(SentencesOfChunk(result[c]))

\* C27: the chunk at position 0 is returned as packed, text, indices and
\* metadata, whatever its sentences; a packed list of one chunk is returned as
\* it is
C27_FirstChunkUntouched ==
    Returned /\ chunks # <<>> =>
        /\ result # <<>>
        /\ result[1] = chunks[1]
        /\ Len(chunks) = 1 => result = chunks

\* several chunks, the first of which starts on a pronoun sentence without a
\* named entity and holds a sentence of density >= 0.15
C27_Witness ==
    /\ Returned
    /\ Len(chunks) >= 2
    /\ NeedsPrepending(SentencesOfChunk(chunks[1])[1])
    /\ SomeSentenceDense(SentencesOfChunk(chunks[1]))
    /\ result[1] = chunks[1]

LastPosition(c) == c.start_idx + c.metadata.sentence_count - 1

\* the sentence positions (0-based) of a packed chunk
PositionsOf(c) == c.start_idx..LastPosition(c)

\* every packed chunk ends on a position no earlier packed chunk contains, and
\* there are no more chunks than sentences
PackerProgress ==
    /\ Len(chunks) <= Len(sentences)
    /\ Len(result) <= Len(sentences)
    /\ \A c \in 1..Len(chunks) :
           /\ LastPosition(chunks[c]) \in 0..(Len(sentences) - 1)
           /\ \A b \in 1..(c - 1) : LastPosition(chunks[c]) \notin PositionsOf(chunks[b])

\* C30: chunk() returns, for a negative, zero or positive target_size and every
\* overlap_sentences; it never holds more chunks than the document has
\* sentences, and every packed chunk ends with a sentence position that no
\* earlier packed chunk contains
C30_TerminatesWithProgress == <>Returned /\ []PackerProgress

\* a call with a negative target_size, where the carried sentences alone
\* exceed target_size at every step, has returned one chunk per sentence
C30_Witness ==
    /\ Returned
    /\ target_size < 0
    /\ overlap_sentences >= 1
    /\ Len(sentences) >= 3
    /\ Len(chunks) = Len(sentences)
    /\ Len(result) = Len(sentences)

====
